---- MODULE Spec2Model ----
(***************************************************************************)
(* Product-photo compositing pipeline (processor.py) and its Streamlit     *)
(* shell (app.py).                                                         *)
(*                                                                         *)
(* A raster is a block raster: a grid of uniform blocks, column widths     *)
(* colW and row heights rowH in pixels, one RGBA pixel value per block.    *)
(* size = (w, h).  After a resize w and h are the new pixel size and       *)
(* colW/rowH keep the relative extents of the blocks.                      *)
(* The outcomes of the PIL filters (Gaussian blur, min filter, Lanczos     *)
(* resampling, brightness) on pixel values are drawn from small sets.      *)
(***************************************************************************)
EXTENDS Integers, Sequences, FiniteSets, TLC

VARIABLES pc, upload, ui_choice, manual_bg, outcome, result, paint, stages,
          geom, light, shadow, white

vars == <<pc, upload, ui_choice, manual_bg, outcome, result, paint, stages,
          geom, light, shadow, white>>

(* ------------------------------ bounds -------------------------------- *)

\* The segmented uploads are GridW x GridH blocks.
GridW == 2
GridH == 2
\* Largest blur radius of a direct create_drop_shadow call.
MaxBlur == 2

\* Edge length in pixels of one block of an upload.
CellSizes == {1, 30, 65}

(* ------------------------------ pixels -------------------------------- *)

Transparent == <<0, 0, 0, 0>>
Dark == <<10, 10, 10, 255>>
Grey == <<200, 200, 200, 255>>
Light == <<250, 250, 250, 255>>
Yellow == <<255, 255, 0, 255>>
\* A nearly transparent white pixel (alpha 1).
Faint == <<255, 255, 255, 1>>

\* The two tones of the blocks of an upload's subject (checkerboard).
TonePairs == {<<Dark, Dark>>, <<Grey, Grey>>, <<Light, Light>>,
              <<Light, Dark>>, <<Light, Grey>>, <<Yellow, Yellow>>,
              <<Light, Transparent>>, <<Transparent, Dark>>, <<Faint, Dark>>,
              <<Transparent, Transparent>>}

\* Python's None, and the truth value of a str-or-None.
None == "<None>"
Truthy(s) == s # None /\ s # ""

\* The empty tuple: what getbbox() returns (None) is falsy like ().
NoBox == <<>>

RECURSIVE SumSeq(_)
SumSeq(s) == IF s = <<>> THEN 0 ELSE Head(s) + SumSeq(Tail(s))

\* Pixel offset of the right edge of block column/row i (0 for i = 0).
Prefix(s, i) == SumSeq(SubSeq(s, 1, i))

MinOf(S) == CHOOSE m \in S : \A n \in S : m <= n
MaxOf(S) == CHOOSE m \in S : \A n \in S : m >= n

\* int(x): truncation toward zero of the quotient a / b, b > 0.
TruncDiv(a, b) == IF a >= 0 THEN a \div b ELSE -((-a) \div b)

(* ------------------------------ strings ------------------------------- *)

\* Python's `k in s` on strings.
Contains(s, k) ==
    \E i \in 1..(Len(s) - Len(k) + 1) : SubSeq(s, i, i + Len(k) - 1) = k

AnyIn(s, ks) == \E k \in ks : Contains(s, k)

UpperChars == "ABCDEFGHIJKLMNOPQRSTUVWXYZ"
LowerChars == "abcdefghijklmnopqrstuvwxyz"

MapChar(c, from, to) ==
    IF \E i \in 1..Len(from) : SubSeq(from, i, i) = c
    THEN LET i == CHOOSE j \in 1..Len(from) : SubSeq(from, j, j) = c
         IN SubSeq(to, i, i)
    ELSE c

RECURSIVE MapStr(_, _, _)
MapStr(s, from, to) ==
    IF Len(s) = 0 THEN ""
    ELSE MapChar(SubSeq(s, 1, 1), from, to) \o MapStr(SubSeq(s, 2, Len(s)), from, to)

\* str.lower()
Lower(s) == MapStr(s, UpperChars, LowerChars)

\* str.capitalize(): first character upper case, the rest lower case.
Capitalize(s) ==
    IF Len(s) = 0 THEN ""
    ELSE MapChar(SubSeq(s, 1, 1), LowerChars, UpperChars) \o Lower(SubSeq(s, 2, Len(s)))

(* ------------------------------ rasters ------------------------------- *)

\* The value CHOOSE picks from a one-element set: The({e(v) : v \in {x}})
\* evaluates x once and names it v in e.
The(S) == CHOOSE v \in S : TRUE

\* The h x w grid of the values P(y, x), as a tuple of rows.
Pixels(h, w, P(_, _)) ==
    SubSeq([y \in 1..h |-> SubSeq([x \in 1..w |-> P(y, x)], 1, w)], 1, h)

Rows(img) == 1..Len(img.rowH)
Cols(img) == 1..Len(img.colW)

\* Image.new(mode, size, color) with the given block structure.
ImageNew(mode, colW, rowH, color) ==
    [mode |-> mode, colW |-> colW, rowH |-> rowH,
     w |-> SumSeq(colW), h |-> SumSeq(rowH),
     px |-> Pixels(Len(rowH), Len(colW), LAMBDA y, x : color)]

\* PIL color names used by the program.
ColorOf(name) ==
    IF name = "white" THEN <<255, 255, 255, 255>> ELSE <<0, 0, 0, 255>>

\* Image.getbbox(): bounding box of the non-zero alpha, None when empty.
getbbox(img) ==
    LET cs == {x \in Cols(img) : \E y \in Rows(img) : img.px[y][x][4] # 0}
        rs == {y \in Rows(img) : \E x \in Cols(img) : img.px[y][x][4] # 0}
    IN IF cs = {} THEN NoBox
       ELSE <<Prefix(img.colW, MinOf(cs) - 1), Prefix(img.rowH, MinOf(rs) - 1),
              Prefix(img.colW, MaxOf(cs)), Prefix(img.rowH, MaxOf(rs))>>

\* Image.crop(box) for a box on block boundaries.
crop(img, box) ==
    LET cs == {x \in Cols(img) : Prefix(img.colW, x - 1) >= box[1]
                                 /\ Prefix(img.colW, x) <= box[3]}
        rs == {y \in Rows(img) : Prefix(img.rowH, y - 1) >= box[2]
                                 /\ Prefix(img.rowH, y) <= box[4]}
        x0 == MinOf(cs) - 1
        y0 == MinOf(rs) - 1
    IN [mode |-> img.mode,
        colW |-> SubSeq(img.colW, MinOf(cs), MaxOf(cs)),
        rowH |-> SubSeq(img.rowH, MinOf(rs), MaxOf(rs)),
        w |-> box[3] - box[1], h |-> box[4] - box[2],
        px |-> Pixels(Cardinality(rs), Cardinality(cs),
                      LAMBDA y, x : img.px[y + y0][x + x0])]

\* Index of the block column/row of dst that starts at pixel offset p.
BlockAt(extents, p) == CHOOSE i \in 0..Len(extents) : Prefix(extents, i) = p

\* One channel of Image.paste under a mask value m.
Blend(dst, src, m) ==
    IF m = 0 THEN dst
    ELSE IF m = 255 THEN src
    ELSE (src * m + dst * (255 - m) + 127) \div 255

BlendPixel(dst, src, m) ==
    <<Blend(dst[1], src[1], m), Blend(dst[2], src[2], m),
      Blend(dst[3], src[3], m), Blend(dst[4], src[4], m)>>

\* dst.paste(src, box) without a mask: the blocks of src replace blocks
\* of dst.
PasteOver(dst, src, box) ==
    LET x0 == BlockAt(dst.colW, box[1])
        y0 == BlockAt(dst.rowH, box[2])
    IN [dst EXCEPT !.px =
          Pixels(Len(dst.rowH), Len(dst.colW), LAMBDA y, x :
             IF /\ y - y0 \in Rows(src)
                /\ x - x0 \in Cols(src)
             THEN src.px[y - y0][x - x0]
             ELSE dst.px[y][x])]

\* dst.paste(src, box, mask=mask): the alpha band of mask weighs src
\* against dst, channel by channel.
Paste(dst, src, box, mask) ==
    LET x0 == BlockAt(dst.colW, box[1])
        y0 == BlockAt(dst.rowH, box[2])
    IN [dst EXCEPT !.px =
          Pixels(Len(dst.rowH), Len(dst.colW), LAMBDA y, x :
             IF /\ y - y0 \in Rows(src)
                /\ x - x0 \in Cols(src)
             THEN BlendPixel(dst.px[y][x], src.px[y - y0][x - x0],
                             mask.px[y - y0][x - x0][4])
             ELSE dst.px[y][x])]

\* Image.convert("RGB"): the alpha band is dropped.
ConvertRGB(img) ==
    [img EXCEPT !.mode = "RGB",
                !.px = Pixels(Len(img.rowH), Len(img.colW),
                              LAMBDA y, x : SubSeq(img.px[y][x], 1, 3))]

\* Image.convert("RGBA"): an image without an alpha band gets alpha 255.
ConvertRGBA(img) ==
    IF img.mode = "RGBA" THEN img
    ELSE [img EXCEPT !.mode = "RGBA",
                     !.px = Pixels(Len(img.rowH), Len(img.colW),
                                   LAMBDA y, x : img.px[y][x] \o <<255>>)]

\* Sum over the blocks i..n (row by row) that have alpha > 0 of
\* area * (R + G + B), or of area * 3 (the number of channel values) when
\* rgb is FALSE.
RECURSIVE SumBlocks(_, _, _)
SumBlocks(img, i, rgb) ==
    IF i > Len(img.rowH) * Len(img.colW) THEN 0
    ELSE LET y == ((i - 1) \div Len(img.colW)) + 1
             x == ((i - 1) % Len(img.colW)) + 1
             p == img.px[y][x]
         IN (IF p[4] > 0
             THEN img.rowH[y] * img.colW[x] * (IF rgb THEN p[1] + p[2] + p[3] ELSE 3)
             ELSE 0)
            + SumBlocks(img, i + 1, rgb)

is_product_white_ge(image, threshold) ==
    \E img \in {ConvertRGBA(image)} :
        IF \A y \in Rows(img), x \in Cols(img) : img.px[y][x][4] = 0 THEN FALSE
        ELSE SumBlocks(img, 1, TRUE) >= threshold * SumBlocks(img, 1, FALSE)

\* is_product_white: FALSE without a pixel of alpha > 0; else whether the
\* mean of R, G, B over the pixels with alpha > 0 exceeds the threshold
\* (sum > threshold * count, exactly).
is_product_white(image, threshold) ==
    \E img \in {ConvertRGBA(image)} :
        IF \A y \in Rows(img), x \in Cols(img) : img.px[y][x][4] = 0 THEN FALSE
        ELSE SumBlocks(img, 1, TRUE) > threshold * SumBlocks(img, 1, FALSE)

(* ------------------------------ inputs -------------------------------- *)

\* The block rectangles <<x1, y1, x2, y2>> of the grid.
Rects == {r \in (1..GridW) \X (1..GridH) \X (1..GridW) \X (1..GridH) :
            r[1] <= r[3] /\ r[2] <= r[4]}

\* What rembg's remove() returns for an upload: a subject in the blocks
\* of rect, its two tones alternating, on alpha-0 black.
Cutout(rect, pair, c) ==
    [mode |-> "RGBA",
     colW |-> SubSeq([x \in 1..GridW |-> c], 1, GridW),
     rowH |-> SubSeq([y \in 1..GridH |-> c], 1, GridH),
     w |-> GridW * c, h |-> GridH * c,
     px |-> Pixels(GridH, GridW, LAMBDA y, x :
              IF x >= rect[1] /\ x <= rect[3] /\ y >= rect[2] /\ y <= rect[4]
              THEN pair[((x + y) % 2) + 1] ELSE Transparent)]

\* An upload: readable is FALSE when remove() raises on it.
Uploads ==
    {[readable |-> TRUE, cutout |-> Cutout(r, t, c)] :
        r \in Rects, t \in TonePairs, c \in CellSizes}
    \cup {[readable |-> FALSE,
           cutout |-> Cutout(<<1, 1, 1, 1>>, <<Transparent, Transparent>>, 1)]}

\* remove_background: the external segmentation of the input image.
remove_background(input_image) == input_image.cutout

(* --------------------------- float arithmetic -------------------------- *)

RECURSIVE Pow2(_)
Pow2(n) == IF n <= 0 THEN 1 ELSE 2 * Pow2(n - 1)

\* The E with 2^E < k <= 2^(E+1), for k >= 2.
RECURSIVE BinadeBelow(_, _)
BinadeBelow(k, E) == IF k > Pow2(E + 1) THEN BinadeBelow(k, E + 1) ELSE E

\* int(x * d) for an int x >= 0 and the decimal literal d = pct / 100, in
\* IEEE double arithmetic.  The doubles nearest 0.1, 0.2, 0.45, 0.65 lie
\* above the decimal and 0.25, 0.5, 1.5 are exact: the product truncates
\* to the exact floor.  The double nearest 0.7 is 0.7 - 0.4 * 2^-53: where
\* 0.7 * x is an integer k = 7j, the product rounds below k when
\* 4j > 2^p, 2^p < k <= 2^(p+1).
FloatMulInt(x, pct) ==
    LET k == (x * pct) \div 100
    IN IF pct = 70 /\ x % 10 = 0 /\ k >= 2
          /\ 4 * (x \div 10) > Pow2(BinadeBelow(k, 0))
       THEN k - 1
       ELSE k

RECURSIVE Pow2Mod(_, _)
Pow2Mod(n, o) == IF n = 0 THEN 1 % o ELSE (2 * Pow2Mod(n - 1, o)) % o

RECURSIVE ExpUp(_, _, _)
ExpUp(t, o, e) == IF o * Pow2(e + 1) <= t THEN ExpUp(t, o, e + 1) ELSE e

RECURSIVE ExpDown(_, _, _)
ExpDown(t, o, m) == IF t * Pow2(m) >= o THEN m ELSE ExpDown(t, o, m + 1)

\* int(W * scale) where scale = t / o is the double quotient (line 356).
\* fl(t / o) has 53 significant bits; with 2^e <= t/o < 2^(e+1) its error
\* is -(rho / o) * 2^(e-52), rho = t * 2^(52-e) mod o, when 0 < 2 rho < o.
\* Where W * t / o is an integer k the product then rounds below k, and
\* truncates to k - 1, iff W * (rho / o) * 2^(e-52) exceeds half an ulp
\* below k.  Otherwise the result is the exact floor.
ScaleDim(W, t, o) ==
    LET k == (W * t) \div o
        up == t >= o
        e == IF up THEN ExpUp(t, o, 0) ELSE 0
        m == IF up THEN 0 ELSE ExpDown(t, o, 1)
        rho == ((t % o) * Pow2Mod(52 - e + m, o)) % o
        E == BinadeBelow(k, 0)
    IN IF (W * t) % o = 0 /\ k >= 2 /\ rho # 0 /\ 2 * rho < o
          /\ 2 * W * rho * Pow2(e) > o * Pow2(E) * Pow2(m)
       THEN k - 1
       ELSE k

(* --------------------------- lighting layers --------------------------- *)

\* A layer handed to the compositor: its raster size and the parameters
\* it was rendered with (its pixels are the output of PIL's filters).
Layer(kind, w, h, color, offset, blur) ==
    [kind |-> kind, mode |-> "RGBA", w |-> w, h |-> h,
     color |-> color, offset |-> offset, blur |-> blur]

create_drop_shadow_offset_pad(image, offset, background_color, blur) ==
    IF image.mode # "RGBA" THEN [layer |-> image, pad |-> 0]
    ELSE LET pad == blur * 4
         IN [layer |-> Layer("drop", image.w + pad * 2 + offset[1],
                             image.h + pad * 2 + offset[2],
                             background_color, offset, blur),
             pad |-> pad + offset[1]]

\* create_drop_shadow: (shadow layer, pad); the input itself and 0 for an
\* image without an alpha band.
create_drop_shadow(image, offset, background_color, blur) ==
    IF image.mode # "RGBA" THEN [layer |-> image, pad |-> 0]
    ELSE LET pad == blur * 4
         IN [layer |-> Layer("drop", image.w + pad * 2, image.h + pad * 2,
                             background_color, offset, blur),
             pad |-> pad]

\* create_perspective_shadow: a layer of the image's size; opacity and
\* scale_y in hundredths.
create_perspective_shadow(image, scale_y, blur, opacity) ==
    Layer("perspective", image.w, image.h,
          <<0, 0, 0, FloatMulInt(255, opacity)>>,
          <<0, image.h - FloatMulInt(image.h, scale_y)>>, blur)

\* create_reflection: the flipped image, of the image's size; opacity in
\* hundredths.
create_reflection(image, opacity, blur) ==
    Layer("reflection", image.w, image.h, <<0, 0, 0, FloatMulInt(255, opacity)>>,
          <<0, 0>>, blur)

\* load_background: the plate (or the white fallback) at target_size.
load_background(bg_name, target_size) ==
    [kind |-> "plate", name |-> bg_name, mode |-> "RGBA",
     w |-> target_size[1], h |-> target_size[2]]

(* ---------------------------- edge refinement -------------------------- *)

\* Outcomes of the Gaussian blurs of feather_edges / solidify_edges on the
\* block pixels:
\*   "far"   blocks far from an edge: nothing changes;
\*   "bleed" solidify_edges wrote the bled subject colour into the
\*           alpha-0 blocks, the alpha blur did not reach them;
\*   "soft"  the alpha blur reached every block: alpha-0 blocks next to
\*           the subject gained alpha, opaque blocks lost some.
FeatherOutcomes == {"far", "bleed", "soft"}

\* The colour solidify_edges bleeds outward: that of a subject block.
BleedColor(image) ==
    LET op == {b \in Rows(image) \X Cols(image) : image.px[b[1]][b[2]][4] > 0}
    IN IF op = {} THEN <<0, 0, 0>>
       ELSE LET b == CHOOSE c \in op : \A d \in op : c[1] < d[1] \/ (c[1] = d[1] /\ c[2] <= d[2])
            IN SubSeq(image.px[b[1]][b[2]], 1, 3)

\* solidify_edges: alpha kept; RGB of the alpha-0 pixels overwritten with
\* the blurred RGB.
solidify_edges(image, outcome_) ==
    IF image.mode # "RGBA" \/ outcome_ = "far" THEN image
    ELSE The({[image EXCEPT !.px =
                 Pixels(Len(image.rowH), Len(image.colW), LAMBDA y, x :
                    IF image.px[y][x][4] = 0 THEN bleed \o <<0>>
                    ELSE image.px[y][x])] : bleed \in {BleedColor(image)}})

\* The Gaussian blur of the alpha band (lines 274-280).
BlurAlpha(image, outcome_) ==
    IF outcome_ # "soft"
       \/ ~\E b \in Rows(image) \X Cols(image) : image.px[b[1]][b[2]][4] > 0
    THEN image
    ELSE [image EXCEPT !.px =
            Pixels(Len(image.rowH), Len(image.colW), LAMBDA y, x :
               [image.px[y][x] EXCEPT ![4] = IF @ = 0 THEN 64 ELSE 191])]

\* feather_edges: solidify, then blur the alpha band only.
feather_edges(image, outcome_) ==
    IF image.mode # "RGBA" THEN image
    ELSE The({BlurAlpha(solid, outcome_) : solid \in {solidify_edges(image, outcome_)}})

\* Outcomes of resize + shave (MinFilter(7)) + defringe + feather +
\* cinematic pass + scene shadows + light wrap on the subject's pixels:
\*   "keep"     representative pixels unchanged;
\*   "erase"    the min filter removed a subject thinner than 7 px;
\*   "brighten" brightness 1.1 lift;
\*   "darken"   brightness 0.4 (edge darkening / scene shadows).
RefineOutcomes == {"keep", "erase", "brighten", "darken"}

RefinePixel(q, outcome_) ==
    CASE outcome_ = "keep" -> q
      [] outcome_ = "erase" -> <<q[1], q[2], q[3], 0>>
      [] outcome_ = "brighten" ->
           <<IF (q[1] * 11) \div 10 > 255 THEN 255 ELSE (q[1] * 11) \div 10,
             IF (q[2] * 11) \div 10 > 255 THEN 255 ELSE (q[2] * 11) \div 10,
             IF (q[3] * 11) \div 10 > 255 THEN 255 ELSE (q[3] * 11) \div 10, q[4]>>
      [] OTHER -> <<(q[1] * 4) \div 10, (q[2] * 4) \div 10, (q[3] * 4) \div 10, q[4]>>

Refine(product, outcome_) ==
    [product EXCEPT !.px =
       Pixels(Len(product.rowH), Len(product.colW),
              LAMBDA y, x : RefinePixel(product.px[y][x], outcome_))]

\* Image.resize(size): the blocks keep their relative extents.
Resize(img, size) == [img EXCEPT !.w = size[1], !.h = size[2]]

(* ------------------------------ pipeline ------------------------------- *)

safe_pad == 100

image_bg_map ==
    ("Realistic Studio" :> "studio_floor")
    @@ ("Wooden Floor" :> "wood_floor")
    @@ ("Marble Floor" :> "marble_floor")
    @@ ("Grey Marble Floor" :> "grey_marble_floor")
    @@ ("Premium Dark Marble" :> "premium_dark_marble")
    @@ ("Premium White Marble" :> "premium_white_marble")
    @@ ("Midnight Obsidian Marble" :> "obsidian_marble")
    @@ ("Dark Studio (Flat Lay)" :> "dark_studio_floor")
    @@ ("Industrial Slate Floor" :> "industrial_slate")
    @@ ("Natural Daylight Studio" :> "daylight_studio")
    @@ ("Premium Oak Parquet" :> "premium_parquet")

\* Line 319-320: the raster embedded in a transparent canvas with margin
\* on every side.
Pad(img, margin) ==
    PasteOver(ImageNew("RGBA", <<margin>> \o img.colW \o <<margin>>,
                       <<margin>> \o img.rowH \o <<margin>>, Transparent),
              img, <<margin, margin>>)

\* Step 2, trim and pad: crop to the bounding box when there is one, then
\* pad by safe_pad.  No branch of it raises.
TrimAndPad(seg) ==
    The({[bbox |-> getbbox(seg), orig_w |-> trimmed.w, orig_h |-> trimmed.h,
          no_bg |-> Pad(trimmed, safe_pad)] :
            trimmed \in {IF getbbox(seg) # NoBox THEN crop(seg, getbbox(seg)) ELSE seg}})

StagingFlags_studio_not_floor(mb) ==
    [is_floor |-> AnyIn(mb, {"Floor", "Marble", "Slate", "Parquet"}),
     is_marble |-> Contains(mb, "Marble"),
     is_spotlight |-> Contains(mb, "Obsidian"),
     is_flat_lay |-> AnyIn(mb, {"Flat Lay", "Daylight", "Parquet"}),
     is_slate |-> Contains(mb, "Slate"),
     is_daylight |-> Contains(mb, "Daylight"),
     is_parquet |-> Contains(mb, "Parquet"),
     is_dark_bg |-> AnyIn(mb, {"Dark", "Obsidian", "Slate"})]

\* The staging flags, by substring of the style name.
StagingFlags(mb) ==
    [is_floor |-> AnyIn(mb, {"Floor", "Marble", "Studio", "Slate", "Parquet"}),
     is_marble |-> Contains(mb, "Marble"),
     is_spotlight |-> Contains(mb, "Obsidian"),
     is_flat_lay |-> AnyIn(mb, {"Flat Lay", "Daylight", "Parquet"}),
     is_slate |-> Contains(mb, "Slate"),
     is_daylight |-> Contains(mb, "Daylight"),
     is_parquet |-> Contains(mb, "Parquet"),
     is_dark_bg |-> AnyIn(mb, {"Dark", "Obsidian", "Slate"})]

ScaleFactor(f) == IF f.is_flat_lay THEN 65 ELSE IF f.is_spotlight THEN 45 ELSE 50

PerspectiveScaling_padded(no_bg, orig_h, bg_h, f) ==
    LET target_h == FloatMulInt(bg_h, ScaleFactor(f))
    IN [scale_factor |-> ScaleFactor(f), target_h |-> target_h,
        scale |-> <<target_h, no_bg.h>>,
        product |-> Resize(no_bg, <<ScaleDim(no_bg.w, target_h, no_bg.h),
                                    ScaleDim(no_bg.h, target_h, no_bg.h)>>)]

\* Step 4, perspective scaling: scale_factor in hundredths, scale as the
\* pair (numerator, denominator) of the quotient target_h / orig_h.
PerspectiveScaling(no_bg, orig_h, bg_h, f) ==
    IF f.is_floor
    THEN LET target_h == FloatMulInt(bg_h, ScaleFactor(f))
         IN [scale_factor |-> ScaleFactor(f), target_h |-> target_h,
             scale |-> <<target_h, orig_h>>,
             product |-> Resize(no_bg, <<ScaleDim(no_bg.w, target_h, orig_h),
                                         ScaleDim(no_bg.h, target_h, orig_h)>>)]
    ELSE [scale_factor |-> 100, target_h |-> orig_h, scale |-> <<1, 1>>,
          product |-> no_bg]

\* Step 7, positioning: (pos_x, pos_y).
Positioning(bg_w, bg_h, p_w, p_h, f) ==
    <<(bg_w - p_w) \div 2,
      IF f.is_spotlight \/ f.is_flat_lay THEN (bg_h - p_h) \div 2
      ELSE FloatMulInt(bg_h, 70) - p_h>>

Painted(name, layer, at) == [name |-> name, layer |-> layer, at |-> at]

DropShadowPaint(name, product, pos, offset, color, blur) ==
    LET sh == create_drop_shadow(product, offset, color, blur)
    IN Painted(name, sh.layer, <<pos[1] - sh.pad, pos[2] - sh.pad>>)

ReflectionOrBounce_any_style(product, pos, f, is_light_prod) ==
    IF f.is_marble
    THEN <<Painted("reflection", create_reflection(product, 8, 4),
                   <<pos[1], pos[2] + product.h - 2>>)>>
    ELSE IF is_light_prod
    THEN <<DropShadowPaint("bounce", product, pos, <<0, 0>>, <<255, 255, 255, 20>>, 50)>>
    ELSE <<>>

\* Step 8a: reflection or light bounce.
ReflectionOrBounce(product, pos, f, is_light_prod) ==
    IF f.is_marble
    THEN <<Painted("reflection", create_reflection(product, 8, 4),
                   <<pos[1], pos[2] + product.h - 2>>)>>
    ELSE IF is_light_prod /\ (f.is_daylight \/ f.is_parquet)
    THEN <<DropShadowPaint("bounce", product, pos, <<0, 0>>, <<255, 255, 255, 20>>, 50)>>
    ELSE <<>>

FloorShadows_slate_first(product, pos, f, is_light_prod) ==
    IF f.is_slate \/ f.is_flat_lay
    THEN <<DropShadowPaint("shadow_s", product, pos, <<15, 12>>,
                           <<0, 0, 0, IF is_light_prod THEN 90 ELSE 60>>, 40),
           DropShadowPaint("shadow_c", product, pos, <<3, 2>>,
                           <<0, 0, 0, IF is_light_prod THEN 200 ELSE 180>>, 4)>>
    ELSE <<Painted("shadow_p",
                   create_perspective_shadow(product, 20, 15,
                                             IF is_light_prod THEN 35 ELSE 25),
                   <<pos[1], pos[2] + FloatMulInt(product.h, 10)>>),
           DropShadowPaint("shadow_c", product, pos, <<0, 2>>,
                           <<0, 0, 0, IF is_light_prod THEN 210 ELSE 180>>, 2),
           DropShadowPaint("shadow_s", product, pos, <<0, 4>>,
                           <<0, 0, 0, IF is_light_prod THEN 60 ELSE 40>>, 25)>>

\* Step 8b: the shadows of a floor style, flat-lay, else slate, else
\* generic floor.
FloorShadows(product, pos, f, is_light_prod) ==
    IF f.is_flat_lay
    THEN LET soft == f.is_daylight \/ f.is_parquet
             offset == IF soft THEN <<-12, 10>> ELSE <<0, 4>>
             base_op == IF soft THEN 45 ELSE 80
             shadow_op == IF is_light_prod THEN FloatMulInt(base_op, 150) ELSE base_op
             contact_op == IF is_light_prod THEN 220 ELSE 160
         IN <<DropShadowPaint("shadow_f", product, pos, offset,
                              <<0, 0, 0, shadow_op>>, 35),
              DropShadowPaint("shadow_c", product, pos,
                              <<TruncDiv(offset[1], 4), TruncDiv(offset[2], 4)>>,
                              <<0, 0, 0, contact_op>>, 4)>>
    ELSE IF f.is_slate
    THEN <<DropShadowPaint("shadow_s", product, pos, <<15, 12>>,
                           <<0, 0, 0, IF is_light_prod THEN 90 ELSE 60>>, 40),
           DropShadowPaint("shadow_c", product, pos, <<3, 2>>,
                           <<0, 0, 0, IF is_light_prod THEN 200 ELSE 180>>, 4)>>
    ELSE <<Painted("shadow_p",
                   create_perspective_shadow(product, 20, 15,
                                             IF is_light_prod THEN 35 ELSE 25),
                   <<pos[1], pos[2] + FloatMulInt(product.h, 10)>>),
           DropShadowPaint("shadow_c", product, pos, <<0, 2>>,
                           <<0, 0, 0, IF is_light_prod THEN 210 ELSE 180>>, 2),
           DropShadowPaint("shadow_s", product, pos, <<0, 4>>,
                           <<0, 0, 0, IF is_light_prod THEN 60 ELSE 40>>, 25)>>

RenderLayers_subject_first(bg_layer, product, pos, f, is_light_prod) ==
    <<Painted("bg_layer", bg_layer, <<0, 0>>),
      Painted("processed_product",
              [kind |-> "subject", mode |-> product.mode,
               w |-> product.w, h |-> product.h], pos)>>
    \o ReflectionOrBounce(product, pos, f, is_light_prod)
    \o FloorShadows(product, pos, f, is_light_prod)
    \o <<Painted("film_grain",
                 [kind |-> "grain", mode |-> "RGBA",
                  w |-> bg_layer.w, h |-> bg_layer.h], <<0, 0>>)>>

\* Step 8, render layers: everything painted onto final_render, in paint
\* order, ending with the subject and the film grain over the frame.
RenderLayers(bg_layer, product, pos, f, is_light_prod) ==
    LET center == <<pos[1], (bg_layer.h - product.h) \div 2>>
        under == IF f.is_floor
                 THEN ReflectionOrBounce(product, pos, f, is_light_prod)
                      \o FloorShadows(product, pos, f, is_light_prod)
                 ELSE <<DropShadowPaint("shadow_d", product, center, <<0, 10>>,
                                        <<0, 0, 0, IF is_light_prod THEN 80 ELSE 60>>, 30)>>
        at == IF f.is_floor THEN pos ELSE center
    IN <<Painted("bg_layer", bg_layer, <<0, 0>>)>>
       \o under
       \o <<Painted("processed_product",
                    [kind |-> "subject", mode |-> product.mode,
                     w |-> product.w, h |-> product.h], at),
            Painted("film_grain",
                    [kind |-> "grain", mode |-> "RGBA",
                     w |-> bg_layer.w, h |-> bg_layer.h], <<0, 0>>)>>

\* The function that renders a painted layer.
StageOf(p) ==
    CASE p.layer.kind = "drop" -> <<"create_drop_shadow">>
      [] p.layer.kind = "perspective" -> <<"create_perspective_shadow">>
      [] p.layer.kind = "reflection" -> <<"create_reflection">>
      [] p.layer.kind = "grain" -> <<"apply_film_grain">>
      [] OTHER -> <<>>

RECURSIVE StagesOf(_)
StagesOf(ps) == IF ps = <<>> THEN <<>> ELSE StageOf(Head(ps)) \o StagesOf(Tail(ps))

\* The size and mode of a raster, without its pixels.
Frame(img) == [mode |-> img.mode, w |-> img.w, h |-> img.h]

\* Lines 338-465: the plate path.  lib is the outcome of the filters on
\* the subject's pixels; pre the stages run before the path.
PlatePath(tp, mb, lib, pre) ==
    \E f \in {StagingFlags(mb)} :
    \E bg_layer \in {load_background(image_bg_map[mb], <<tp.no_bg.w, tp.no_bg.h>>)} :
    \E ps \in {PerspectiveScaling(tp.no_bg, tp.orig_h, bg_layer.h, f)} :
    \E first \in {is_product_white(ps.product, 200)} :
    \E processed_product \in {Refine(ps.product, lib)} :
    \E pos \in {Positioning(bg_layer.w, bg_layer.h, processed_product.w,
                            processed_product.h, f)} :
    \E second \in {is_product_white(processed_product, 200)} :
    \E layers \in {RenderLayers(bg_layer, Frame(processed_product), pos, f, second)} :
        /\ outcome' = "ok"
        /\ result' = [path |-> "plate",
                      image |-> [mode |-> "RGB", w |-> bg_layer.w, h |-> bg_layer.h],
                      label |-> mb,
                      subject |-> processed_product]
        /\ geom' = [bbox |-> tp.bbox, orig_w |-> tp.orig_w, orig_h |-> tp.orig_h,
                    padded_w |-> tp.no_bg.w, padded_h |-> tp.no_bg.h,
                    bg_w |-> bg_layer.w, bg_h |-> bg_layer.h, flags |-> f,
                    scale_factor |-> ps.scale_factor, target_h |-> ps.target_h,
                    scale |-> ps.scale,
                    p_w |-> processed_product.w, p_h |-> processed_product.h,
                    pos_x |-> pos[1],
                    pos_y |-> IF f.is_floor THEN pos[2]
                              ELSE (bg_layer.h - processed_product.h) \div 2]
        /\ light' = [first |-> first, second |-> second]
        /\ paint' = layers
        /\ stages' = pre \o <<"load_background">>
                     \o (IF f.is_floor THEN <<"resize">> ELSE <<>>)
                     \o <<"is_product_white", "shave", "defringe", "feather_edges",
                          "solidify_edges", "apply_cinematic_effects">>
                     \o (IF f.is_dark_bg THEN <<"apply_rim_glow">> ELSE <<>>)
                     \o (IF f.is_daylight \/ f.is_parquet
                         THEN <<"apply_scene_shadows">> ELSE <<>>)
                     \o <<"apply_light_wrap", "is_product_white">>
                     \o StagesOf(layers)

FlatRender_unmasked(no_bg, bg_color) ==
    PasteOver(ImageNew("RGBA", no_bg.colW, no_bg.rowH, ColorOf(bg_color)),
              no_bg, <<0, 0>>)

\* Lines 476-477: a canvas of the subject's size in the flat colour, the
\* subject pasted at (0, 0) through its own alpha.
FlatRender(no_bg, bg_color) ==
    Paste(ImageNew("RGBA", no_bg.colW, no_bg.rowH, ColorOf(bg_color)),
          no_bg, <<0, 0>>, no_bg)

ResolveColor_inverted(mb, no_bg) ==
    IF Truthy(mb) /\ mb \in {"White", "Black"} THEN Lower(mb)
    ELSE IF is_product_white(no_bg, 200) THEN "white" ELSE "black"

\* Lines 468-472: the flat colour, the explicit one or by classification.
ResolveColor(mb, no_bg) ==
    IF Truthy(mb) /\ mb \in {"White", "Black"} THEN Lower(mb)
    ELSE IF is_product_white(no_bg, 200) THEN "black" ELSE "white"

\* Lines 467-478: the flat-colour path.  lib is the outcome of the blurs
\* of feather_edges.
FlatPath(tp, mb, lib, pre) ==
    \E bg_color \in {ResolveColor(mb, tp.no_bg)} :
    \E no_bg \in {feather_edges(tp.no_bg, lib)} :
    \E final_render \in {FlatRender(no_bg, bg_color)} :
        /\ outcome' = "ok"
        /\ result' = [path |-> "flat",
                      image |-> ConvertRGB(final_render),
                      label |-> Capitalize(bg_color),
                      subject |-> no_bg]
        /\ geom' = [bbox |-> tp.bbox, orig_w |-> tp.orig_w, orig_h |-> tp.orig_h,
                    padded_w |-> tp.no_bg.w, padded_h |-> tp.no_bg.h,
                    bg_color |-> bg_color]
        /\ light' = [auto |-> ~(Truthy(mb) /\ mb \in {"White", "Black"}),
                     subject |-> is_product_white(tp.no_bg, 200)]
        /\ paint' = <<Painted("canvas",
                              [kind |-> "solid", mode |-> "RGBA", w |-> no_bg.w,
                               h |-> no_bg.h, color |-> ColorOf(bg_color)], <<0, 0>>),
                      Painted("no_bg",
                              [kind |-> "subject", mode |-> no_bg.mode,
                               w |-> no_bg.w, h |-> no_bg.h], <<0, 0>>)>>
        /\ stages' = pre
                     \o (IF Truthy(mb) /\ mb \in {"White", "Black"} THEN <<>>
                         ELSE <<"is_product_white">>)
                     \o <<"feather_edges", "solidify_edges", "paste">>

\* The filter outcomes a call with this background draws from.
LibOutcomes(mb) ==
    IF mb \in DOMAIN image_bg_map THEN RefineOutcomes ELSE FeatherOutcomes

NoResult == [path |-> "none"]
NoShadow == [called |-> FALSE]
NoWhite == [called |-> FALSE]

\* An exception leaves the call: no raster, no label.
Raises(pre) ==
    /\ outcome' = "error"
    /\ result' = NoResult
    /\ stages' = pre
    /\ UNCHANGED <<paint, geom, light>>

\* process_product_photo(upload, mb): the state after the call returned
\* or raised.  Each \E x \in {e} binds a local of the function.
process_product_photo(mb, lib) ==
    IF ~upload.readable THEN Raises(<<"remove_background">>)
    ELSE \E seg \in {remove_background(upload)} :
         \E tp \in {TrimAndPad(seg)} :
         \E pre \in {<<"remove_background", "getbbox">>
                     \o (IF tp.bbox # NoBox THEN <<"crop">> ELSE <<>>)
                     \o <<"pad">>} :
            IF mb \in DOMAIN image_bg_map THEN PlatePath(tp, mb, lib, pre)
            ELSE FlatPath(tp, mb, lib, pre)

(* -------------------------------- shell -------------------------------- *)

\* app.py lines 72-87: the selectbox options and what each hands to the
\* core.
bg_map ==
    ("White" :> "white") @@ ("Black" :> "black") @@ ("Auto-detect" :> None)
    @@ [s \in DOMAIN image_bg_map |-> s]

\* Backgrounds of the direct calls of the core (the shell's come from bg_map).
DirectChoices == {"White", "Black"}

\* Inputs of the direct calls of create_drop_shadow.
Offsets == {<<0, 0>>, <<15, 12>>, <<-12, 10>>}

\* Thresholds of the direct calls of is_product_white (200 is the default).
Thresholds == {0, 10, 200, 250}

Init ==
    /\ pc = "idle"
    /\ upload \in Uploads
    /\ ui_choice = None
    /\ manual_bg = None
    /\ outcome = "none"
    /\ result = NoResult
    /\ paint = <<>>
    /\ stages = <<>>
    /\ geom = [bbox |-> NoBox]
    /\ light = [auto |-> FALSE]
    /\ shadow = NoShadow
    /\ white = NoWhite

\* app.py lines 68-112: the button handler with the selected option; an
\* exception of the core is caught and shown (st.error).
ShellProcess ==
    /\ pc = "idle"
    /\ \E choice \in DOMAIN bg_map :
         /\ ui_choice' = choice
         /\ manual_bg' = bg_map[choice]
         /\ \E lib \in LibOutcomes(bg_map[choice]) :
              process_product_photo(bg_map[choice], lib)
    /\ pc' = "done"
    /\ UNCHANGED <<upload, shadow, white>>

\* A direct call process_product_photo(upload, mb).
CoreProcess ==
    /\ pc = "idle"
    /\ \E mb \in DirectChoices :
         /\ manual_bg' = mb
         /\ \E lib \in LibOutcomes(mb) : process_product_photo(mb, lib)
    /\ pc' = "done"
    /\ UNCHANGED <<upload, ui_choice, shadow, white>>

\* A direct call create_drop_shadow(image, offset, color, blur) on the
\* upload's cutout, as RGBA or converted to RGB.
DropShadowCall ==
    /\ pc = "idle"
    /\ upload.readable
    /\ \E offset \in Offsets, blur \in 0..MaxBlur, rgba \in BOOLEAN :
       \E image \in {IF rgba THEN Frame(upload.cutout)
                     ELSE Frame(ConvertRGB(upload.cutout))} :
       \E r \in {create_drop_shadow(image, offset, <<0, 0, 0, 100>>, blur)} :
         shadow' = [called |-> TRUE, image |-> image, offset |-> offset,
                    blur |-> blur, layer |-> Frame(r.layer), pad |-> r.pad]
    /\ pc' = "done"
    /\ UNCHANGED <<upload, ui_choice, manual_bg, outcome, result, paint, stages,
                   geom, light, white>>

\* A direct call is_product_white(image, threshold) on the upload's cutout,
\* as RGBA or converted to RGB; the function has no raise on any path.
WhiteCall ==
    /\ pc = "idle"
    /\ upload.readable
    /\ \E threshold \in Thresholds, rgba \in BOOLEAN :
       \E image \in {IF rgba THEN upload.cutout ELSE ConvertRGB(upload.cutout)} :
         white' = [called |-> TRUE, image |-> image, threshold |-> threshold,
                   raised |-> FALSE,
                   value |-> is_product_white(image, threshold)]
    /\ pc' = "done"
    /\ UNCHANGED <<upload, ui_choice, manual_bg, outcome, result, paint, stages,
                   geom, light, shadow>>

Next == ShellProcess \/ CoreProcess \/ DropShadowCall \/ WhiteCall

Spec == Init /\ [][Next]_vars

(* -------------------------------- claims ------------------------------- *)

\* process_product_photo returned (it did not raise).
CallReturned == pc = "done" /\ outcome = "ok"
FlatCall == CallReturned /\ result.path = "flat"
PlateCall == CallReturned /\ result.path = "plate"

NamesOf(ps) == [i \in 1..Len(ps) |-> ps[i].name]

\* The subject of the upload is light: it has a pixel of alpha > 0 and the
\* mean of R, G, B over those pixels is above 200.
UploadIsLight ==
    /\ \E y \in 1..GridH, x \in 1..GridW : upload.cutout.px[y][x][4] > 0
    /\ SumBlocks(upload.cutout, 1, TRUE) > 200 * SumBlocks(upload.cutout, 1, FALSE)

\* C1: on a call without a background choice the resolved background is
\* "Black" iff the segmented subject is light and "White" otherwise, and
\* the returned label and the canvas colour are that colour.
C1_AutoBackground ==
    (FlatCall /\ manual_bg = None) =>
        /\ result.label = (IF UploadIsLight THEN "Black" ELSE "White")
        /\ paint[1].layer.color
             = (IF UploadIsLight THEN <<0, 0, 0, 255>> ELSE <<255, 255, 255, 255>>)
        /\ geom.bg_color = Lower(result.label)

C1_Witness ==
    /\ FlatCall /\ manual_bg = None /\ ui_choice = "Auto-detect"
    /\ UploadIsLight /\ result.label = "Black"

\* C2: a flat colour picked in the shell is honoured: canvas and label are
\* the picked colour for every subject.
C2_ExplicitColourHonoured ==
    (CallReturned /\ ui_choice \in {"White", "Black"}) =>
        /\ result.label = ui_choice
        /\ paint[1].layer.color = ColorOf(Lower(ui_choice))

\* C3: a segmentation without a pixel of non-zero alpha ends the call in
\* an error, with no result raster and no label.
C3_EmptyBoxIsError ==
    (pc = "done" /\ ~shadow.called /\ upload.readable
     /\ \A y \in 1..GridH, x \in 1..GridW : upload.cutout.px[y][x][4] = 0) =>
        outcome = "error" /\ result = NoResult

ShadowNames == {"shadow_f", "shadow_c", "shadow_s", "shadow_p", "shadow_d"}
IsShadow(p) == p.name \in ShadowNames
Shadows == SelectSeq(paint, IsShadow)
KindsOf(ps) == [i \in 1..Len(ps) |-> ps[i].layer.kind]
BlursOf(ps) == [i \in 1..Len(ps) |-> ps[i].layer.blur]

\* C4: for a floor style the shadow stage paints the layers of exactly one
\* branch, flat-lay before slate before generic floor: two drop shadows
\* (soft, then contact), two offset drop shadows, or perspective shadow,
\* contact shadow and soft shadow.
C4_OneShadowBranch ==
    (PlateCall /\ geom.flags.is_floor) =>
        IF geom.flags.is_flat_lay
        THEN /\ NamesOf(Shadows) = <<"shadow_f", "shadow_c">>
             /\ KindsOf(Shadows) = <<"drop", "drop">>
             /\ BlursOf(Shadows) = <<35, 4>>
        ELSE IF geom.flags.is_slate
        THEN /\ NamesOf(Shadows) = <<"shadow_s", "shadow_c">>
             /\ KindsOf(Shadows) = <<"drop", "drop">>
             /\ Shadows[1].layer.offset = <<15, 12>>
             /\ Shadows[2].layer.offset = <<3, 2>>
        ELSE /\ NamesOf(Shadows) = <<"shadow_p", "shadow_c", "shadow_s">>
             /\ KindsOf(Shadows) = <<"perspective", "drop", "drop">>
             /\ BlursOf(Shadows) = <<15, 2, 25>>

C4_Witness ==
    /\ PlateCall /\ manual_bg = "Dark Studio (Flat Lay)"
    /\ geom.flags.is_flat_lay /\ Len(Shadows) = 2

Has(name) == \E i \in 1..Len(paint) : paint[i].name = name

\* C5: a reflection is painted iff the style is marble; a light bounce iff
\* the style is not marble, the refined subject is light and the style is
\* daylight or parquet; never both; neither for "Dark Studio (Flat Lay)".
C5_ReflectionOrBounce ==
    PlateCall =>
        /\ Has("reflection") <=> Contains(manual_bg, "Marble")
        /\ Has("bounce") <=>
             /\ ~Contains(manual_bg, "Marble")
             /\ is_product_white(result.subject, 200)
             /\ (Contains(manual_bg, "Daylight") \/ Contains(manual_bg, "Parquet"))
        /\ ~(Has("reflection") /\ Has("bounce"))
        /\ manual_bg = "Dark Studio (Flat Lay)" => ~Has("reflection") /\ ~Has("bounce")

C5_Witness ==
    /\ PlateCall /\ manual_bg = "Premium Oak Parquet"
    /\ Has("bounce") /\ ~light.first

\* The step of the paint order a painted layer belongs to.
Rank(p) ==
    CASE p.name = "bg_layer" -> 1
      [] p.name \in {"reflection", "bounce"} -> 2
      [] p.name \in ShadowNames -> 3
      [] p.name = "processed_product" -> 4
      [] OTHER -> 5

\* C6: on a plate call the layers are painted in one order, none twice:
\* background, then the reflection or bounce if any, then the shadows,
\* then the subject once, then the film grain, last.
C6_PaintOrder ==
    PlateCall =>
        /\ \A i, j \in 1..Len(paint) : i < j =>
             /\ Rank(paint[i]) <= Rank(paint[j])
             /\ paint[i].name # paint[j].name
        /\ paint[1].name = "bg_layer"
        /\ paint[Len(paint) - 1].name = "processed_product"
        /\ paint[Len(paint)].name = "film_grain"
        /\ Cardinality({i \in 1..Len(paint) : Rank(paint[i]) = 2}) <= 1
        /\ stages[Len(stages)] = "apply_film_grain"

C6_Witness ==
    /\ PlateCall /\ Len(paint) = 6 /\ Has("bounce") /\ Has("shadow_f")

LightingStages ==
    {"create_drop_shadow", "create_perspective_shadow", "create_reflection",
     "apply_rim_glow", "apply_light_wrap", "apply_scene_shadows",
     "apply_cinematic_effects", "apply_film_grain", "load_background", "resize"}

\* C7: on the flat-colour path only feather and paste run after trim and
\* pad, the output has the padded subject's size, and every pixel where
\* the feathered subject's alpha is zero has the flat colour exactly.
C7_FlatPath ==
    FlatCall =>
        /\ \A i \in 1..Len(stages) : stages[i] \notin LightingStages
        /\ NamesOf(paint) = <<"canvas", "no_bg">>
        /\ result.image.w = geom.orig_w + 2 * safe_pad
        /\ result.image.h = geom.orig_h + 2 * safe_pad
        /\ result.image.w = result.subject.w /\ result.image.h = result.subject.h
        /\ \A y \in Rows(result.subject), x \in Cols(result.subject) :
             result.subject.px[y][x][4] = 0 =>
                result.image.px[y][x] = SubSeq(ColorOf(Lower(result.label)), 1, 3)

C7_Witness ==
    /\ FlatCall /\ result.label = "White"
    /\ \E y \in Rows(result.subject), x \in Cols(result.subject) :
         /\ result.subject.px[y][x][4] = 0
         /\ SubSeq(result.subject.px[y][x], 1, 3) = <<10, 10, 10>>
    /\ \E y \in Rows(result.subject), x \in Cols(result.subject) :
         result.subject.px[y][x][4] = 255

IsDrop(p) == p.layer.kind = "drop"
Drops == SelectSeq(paint, IsDrop)

\* C8: create_drop_shadow on an RGBA subject of size (w, h) returns a
\* layer of (w + 2*4*blur, h + 2*4*blur) and the padding 4*blur, whatever
\* the offset.
C8_DropShadowSize ==
    /\ (shadow.called /\ shadow.image.mode = "RGBA") =>
          /\ shadow.layer.w = shadow.image.w + 2 * 4 * shadow.blur
          /\ shadow.layer.h = shadow.image.h + 2 * 4 * shadow.blur
          /\ shadow.pad = 4 * shadow.blur
    /\ PlateCall =>
          \A i \in 1..Len(Drops) :
             /\ Drops[i].layer.w = geom.p_w + 2 * 4 * Drops[i].layer.blur
             /\ Drops[i].layer.h = geom.p_h + 2 * 4 * Drops[i].layer.blur
             /\ Drops[i].at = <<geom.pos_x - 4 * Drops[i].layer.blur,
                                geom.pos_y - 4 * Drops[i].layer.blur>>

C8_Witness ==
    /\ shadow.called /\ shadow.image.mode = "RGBA"
    /\ shadow.offset = <<15, 12>> /\ shadow.blur = 2
    /\ shadow.layer.w = shadow.image.w + 16

\* C9: for a floor style the target height is the background height times
\* 0.65 (flat-lay), else 0.45 (spotlight), else 0.5, truncated; the scale
\* is the target height over the trimmed height, applied to both sides of
\* the padded raster.
C9_PerspectiveScale ==
    (PlateCall /\ geom.flags.is_floor) =>
        LET sf == IF geom.flags.is_flat_lay THEN 65
                  ELSE IF geom.flags.is_spotlight THEN 45 ELSE 50
            trimmed_h == IF geom.bbox = NoBox THEN upload.cutout.h
                         ELSE geom.bbox[4] - geom.bbox[2]
            t == (geom.bg_h * sf) \div 100
        IN /\ geom.scale_factor = sf
           /\ geom.target_h = t
           /\ geom.scale = <<t, trimmed_h>>
           /\ geom.padded_h * t - geom.p_h * trimmed_h \in 0..(2 * trimmed_h - 1)
           /\ geom.padded_w * t - geom.p_w * trimmed_h \in 0..(2 * trimmed_h - 1)

C9_Witness ==
    /\ PlateCall /\ geom.flags.is_floor /\ geom.flags.is_spotlight
    /\ geom.orig_h = 60 /\ geom.target_h = 117 /\ geom.p_h = 507

\* C10: the subject is pasted horizontally centred; vertically centred
\* for spotlight and flat-lay, else with its bottom edge at 70% of the
\* background height, truncated.
C10_PasteAnchor ==
    PlateCall =>
        /\ geom.pos_x = (geom.bg_w - geom.p_w) \div 2
        /\ IF geom.flags.is_spotlight \/ geom.flags.is_flat_lay
           THEN geom.pos_y = (geom.bg_h - geom.p_h) \div 2
           ELSE geom.pos_y + geom.p_h = (geom.bg_h * 7) \div 10
        /\ paint[Len(paint) - 1].at = <<geom.pos_x, geom.pos_y>>

\* The alpha of a pixel of a raster; a raster without an alpha band is opaque.
AlphaOf(img, y, x) == IF img.mode = "RGBA" THEN img.px[y][x][4] ELSE 255

\* The blocks of a raster whose pixels have alpha > 0.
OpaqueBlocks(img) ==
    {b \in Rows(img) \X Cols(img) : AlphaOf(img, b[1], b[2]) > 0}

\* Number of pixels in the blocks S, and the sum of their R, G and B values.
RECURSIVE PixelCount(_, _)
PixelCount(img, S) ==
    IF S = {} THEN 0
    ELSE LET b == CHOOSE c \in S : TRUE
         IN img.rowH[b[1]] * img.colW[b[2]] + PixelCount(img, S \ {b})

RECURSIVE ChannelSum(_, _)
ChannelSum(img, S) ==
    IF S = {} THEN 0
    ELSE LET b == CHOOSE c \in S : TRUE
             p == img.px[b[1]][b[2]]
         IN img.rowH[b[1]] * img.colW[b[2]] * (p[1] + p[2] + p[3])
            + ChannelSum(img, S \ {b})

\* The mean of R, G, B over the pixels of the non-empty block set S is
\* strictly greater than the integer t.
MeanAbove(img, S, t) ==
    LET n == 3 * PixelCount(img, S)
        total == ChannelSum(img, S)
    IN (total \div n > t) \/ (total \div n = t /\ total % n > 0)

\* C11: is_product_white(raster, threshold) is true iff the raster has a
\* pixel of alpha > 0 and the mean of R, G, B over exactly those pixels is
\* strictly greater than the threshold; without such a pixel it is false,
\* and no call raises.
C11_IsProductWhite ==
    white.called =>
        /\ ~white.raised
        /\ white.value
             = (/\ OpaqueBlocks(white.image) # {}
                /\ MeanAbove(white.image, OpaqueBlocks(white.image),
                             white.threshold))

C11_Witness ==
    /\ white.called /\ white.value /\ white.threshold = 200
    /\ white.image.mode = "RGBA"
    /\ OpaqueBlocks(white.image) # {}
    /\ OpaqueBlocks(white.image) # Rows(white.image) \X Cols(white.image)

\* C12: each of the 11 styles of image_bg_map has is_floor true, so no
\* plate call runs the non-floor branch: the soft drop shadow shadow_d is
\* never painted, the subject is always rescaled by the perspective factor
\* and is pasted at the anchor of the positioning step.
C12_AllStylesFloor ==
    /\ pc = "idle" =>
          /\ Cardinality(DOMAIN image_bg_map) = 11
          /\ \A style \in DOMAIN image_bg_map : StagingFlags(style).is_floor
    /\ PlateCall =>
          /\ manual_bg \in DOMAIN image_bg_map
          /\ geom.flags.is_floor
          /\ ~Has("shadow_d")
          /\ geom.scale_factor \in {45, 50, 65}
          /\ geom.p_h = ScaleDim(geom.padded_h, geom.target_h, geom.orig_h)
          /\ \E i \in 1..Len(paint) :
                /\ paint[i].name = "processed_product"
                /\ paint[i].at = <<geom.pos_x, geom.pos_y>>

C12_Witness ==
    /\ PlateCall /\ ui_choice = "Realistic Studio"
    /\ geom.flags.is_floor /\ geom.scale_factor = 50
    /\ NamesOf(Shadows) = <<"shadow_p", "shadow_c", "shadow_s">>

\* C13: for every plate style and every non-empty trimmed subject, the
\* rescaled padded subject raster pasted at (pos_x, pos_y) lies entirely
\* inside the background plate, which has the padded pre-scale size
\* (orig_w + 200, orig_h + 200).
C13_SubjectInsidePlate ==
    (PlateCall /\ geom.bbox # NoBox) =>
        /\ geom.bg_w = geom.orig_w + 200
        /\ geom.bg_h = geom.orig_h + 200
        /\ 0 <= geom.pos_x
        /\ 0 <= geom.pos_y
        /\ geom.pos_x + geom.p_w <= geom.bg_w
        /\ geom.pos_y + geom.p_h <= geom.bg_h

====
